---- MODULE Spec2Model ----
(***************************************************************************)
(* Wheel-strategy simulator: the Portfolio ledger (models/position.py) and *)
(* the day-stepping engine (core/simulator.py).                            *)
(*                                                                         *)
(* Money is modelled in whole dollars.  A Python object held in a list is  *)
(* modelled by its position in that list: Portfolio methods that take a    *)
(* position object take the index of that object in options_positions.     *)
(* An exception is modelled by the field "raised" of an operation's result *)
(* ("none" when the call returned normally).                               *)
(***************************************************************************)
EXTENDS Integers, Sequences, FiniteSets, TLC

VARIABLES
    cash,                 \* Portfolio.cash
    stock_positions,      \* Portfolio.stock_positions : dict symbol -> StockPosition
    options_positions,    \* Portfolio.options_positions : list of open OptionsPosition
    closed_positions,     \* Portfolio.closed_positions
    transaction_history,  \* Portfolio.transaction_history
    current_date,         \* WheelSimulator.current_date (None before initialize)
    trading_dates,        \* WheelSimulator.trading_dates
    current_date_index,   \* WheelSimulator.current_date_index
    data_cache,           \* DataFetcher.data_cache : symbol -> closing prices by trading day
    ret                   \* the last call made by the caller and what it got back

pfvars == <<cash, stock_positions, options_positions, closed_positions, transaction_history>>
simvars == <<current_date, trading_dates, current_date_index, data_cache>>
vars == <<cash, stock_positions, options_positions, closed_positions,
          transaction_history, current_date, trading_dates, current_date_index,
          data_cache, ret>>

(***************************************************************************)
(* Bounds of the model                                                     *)
(***************************************************************************)
NumDates == 3        \* trading days the data provider returns
MaxPositions == 3    \* contracts accepted by the portfolio in one behaviour
MaxContracts == 2    \* largest contract count of one order
MaxDTE == 1          \* largest days_to_expiration of one order
MaxDays == 2         \* largest forward step of advance_day
MaxPremium == 1      \* largest per-share premium the pricing model returns for T > 0
MaxBack == 1         \* largest backward step of advance_day
MaxUnchecked == 2    \* contracts accepted from a caller that checks no argument
MaxLongDTE == 2      \* largest days_to_expiration of a long-dated order
MaxSpot == 3         \* largest spot and strike handed to the pricing model directly
MaxStrikesEachSide == 3   \* largest num_strikes of generate_strike_prices

(***************************************************************************)
(* Program constants                                                       *)
(***************************************************************************)
INITIAL_CAPITAL == 100000
None == 0            \* Python None for an Optional[datetime]; every date is > 0

STOCKS == <<"AAPL", "MSFT">>
Symbols == {STOCKS[i] : i \in 1..Len(STOCKS)}
Strikes == {300, 500}
\* the symbols the caller trades through the engine
Traded == {STOCKS[1]}

Max(a, b) == IF a >= b THEN a ELSE b
Min(a, b) == IF a <= b THEN a ELSE b

RemoveAt(seq, i) == SubSeq(seq, 1, i - 1) \o SubSeq(seq, i + 1, Len(seq))

\* Python list indexing: seq[i] with 0-based i, negative i counting from the end
InRange(seq, i) == i >= 0 - Len(seq) /\ i < Len(seq)
PyIndex(seq, i) == IF i >= 0 THEN seq[i + 1] ELSE seq[Len(seq) + i + 1]

(***************************************************************************)
(* Market data (DataFetcher)                                               *)
(***************************************************************************)
\* the calendar day of the i-th trading day: weekends are skipped
TradingDate(i) == 100 + i + 2 * ((i - 1) \div 5)
AvailableDates == [i \in 1..NumDates |-> TradingDate(i)]

\* closing prices cycle through 700, 200, 400, 500, starting at phase
PricePath(phase) == [i \in 1..NumDates |->
                       CASE (i + phase) % 4 = 1 -> 700
                         [] (i + phase) % 4 = 2 -> 200
                         [] (i + phase) % 4 = 3 -> 400
                         [] OTHER -> 500]

\* What fetch_historical_data can leave in the cache: per symbol the closing
\* prices and the value the pricing model gives an option with T > 0 on it.
DataSets ==
    {[s \in Symbols |-> [Close |-> PricePath(0), quote |-> MaxPremium]],
     [s \in Symbols |-> [Close |-> PricePath(1), quote |-> 0]],
     [s \in {STOCKS[2]} |-> [Close |-> PricePath(2), quote |-> 0]]}

get_available_dates(cache, symbol) ==
    IF symbol \in DOMAIN cache THEN AvailableDates ELSE <<>>

DayOf(date) == CHOOSE i \in 1..NumDates : TradingDate(i) = date

get_price_at_date(cache, symbol, date) ==
    IF symbol \notin DOMAIN cache THEN 0 ELSE cache[symbol].Close[DayOf(date)]

(***************************************************************************)
(* Pricing model (BlackScholes): exact for T <= 0.  For T > 0 the closed   *)
(* form is a real-valued function of (S, K, T, r, sigma) floored at 0; the *)
(* model takes its value, bs, from the market data of the symbol.          *)
(***************************************************************************)
BlackScholesValue(cache, symbol) ==
    IF symbol \notin DOMAIN cache THEN 0 ELSE cache[symbol].quote

call_price(S, K, T, bs) == IF T <= 0 THEN Max(S - K, 0) ELSE Max(bs, 0)
\* put_price taking the intrinsic value only for T < 0
put_price_strict(S, K, T, bs) == IF T < 0 THEN Max(K - S, 0) ELSE Max(bs, 0)
put_price(S, K, T, bs) == IF T <= 0 THEN Max(K - S, 0) ELSE Max(bs, 0)

(***************************************************************************)
(* generate_strike_prices.  Prices are in thousandths of a dollar (Mill),  *)
(* spacing_pct in thousandths; the stock price is a whole number of        *)
(* dollars.  round() is Python 3's: to the nearest integer, a tie to the   *)
(* even one.  The inputs drawn (StrikeSpots, Spacings) are ones for which  *)
(* the binary floating-point candidate rounds as the exact candidate does. *)
(***************************************************************************)
Mill == 1000
RoundingThreshold == 50 * Mill
DefaultSpacing == 25
StrikeSpots == {1, 49, 50, 100}
Spacings == {DefaultSpacing, 100}

\* round(n / d) for d > 0
round(n, d) ==
    LET q == n \div d
        r == n % d
    IN  IF 2 * r < d THEN q
        ELSE IF 2 * r > d THEN q + 1
        ELSE IF q % 2 = 0 THEN q ELSE q + 1

\* stock_price * (1 + i * spacing_pct)
strike_candidate(stock_price, i, spacing_pct) == stock_price * (Mill + i * spacing_pct)

round_strike(strike) ==
    IF strike < RoundingThreshold
    THEN round(strike * 2, Mill) * (Mill \div 2)
    ELSE round(strike, Mill) * Mill

RECURSIVE sorted(_)
\* sorted(set(strikes)), on the set
sorted(set) ==
    IF set = {} THEN <<>>
    ELSE LET m == CHOOSE x \in set : \A y \in set : x <= y
         IN  <<m>> \o sorted(set \ {m})

\* generate_strike_prices returning the list as the loop built it
generate_strike_prices_as_built(stock_price, num_strikes, spacing_pct) ==
    [k \in 1..(2 * num_strikes + 1) |->
        round_strike(strike_candidate(stock_price, k - num_strikes - 1, spacing_pct))]

generate_strike_prices(stock_price, num_strikes, spacing_pct) ==
    LET strikes == [k \in 1..(2 * num_strikes + 1) |->
                      round_strike(strike_candidate(stock_price, k - num_strikes - 1,
                                                    spacing_pct))]
    IN  sorted({strikes[k] : k \in 1..Len(strikes)})

(***************************************************************************)
(* Position entities                                                       *)
(***************************************************************************)
OptionsPosition(symbol, option_type, strike, expiration, premium_received, contracts, entry_date, stock_price_at_entry) ==
    [symbol |-> symbol, option_type |-> option_type, strike |-> strike,
     expiration |-> expiration, premium_received |-> premium_received,
     contracts |-> contracts, entry_date |-> entry_date, status |-> "open",
     exit_date |-> None, stock_price_at_entry |-> stock_price_at_entry,
     stock_price_at_exit |-> 0]

total_premium(position) == position.premium_received * position.contracts * 100

\* is_expired a day ahead of the expiration
is_expired_eager(position, date) == date + 1 >= position.expiration
is_expired(position, date) == date >= position.expiration

StockPosition(symbol, shares, cost_basis, acquisition_date, assigned_from_put) ==
    [symbol |-> symbol, shares |-> shares, cost_basis |-> cost_basis,
     acquisition_date |-> acquisition_date, assigned_from_put |-> assigned_from_put]

(***************************************************************************)
(* Portfolio: each method maps a portfolio record to [raised, pf]          *)
(***************************************************************************)
EmptyDict == [x \in {} |-> 0]

Portfolio(initial_capital) ==
    [cash |-> initial_capital, stock_positions |-> EmptyDict,
     options_positions |-> <<>>, closed_positions |-> <<>>,
     transaction_history |-> <<>>]

ThePortfolio ==
    [cash |-> cash, stock_positions |-> stock_positions,
     options_positions |-> options_positions,
     closed_positions |-> closed_positions,
     transaction_history |-> transaction_history]

DictSet(d, k, v) == [x \in DOMAIN d \cup {k} |-> IF x = k THEN v ELSE d[x]]
DictDel(d, k) == [x \in DOMAIN d \ {k} |-> d[x]]

\* add_cash that writes no transaction
add_cash_unlogged(pf, amount, description) ==
    [pf EXCEPT !.cash = @ + amount]

add_cash(pf, amount, description) ==
    [pf EXCEPT !.cash = @ + amount,
               !.transaction_history =
                   Append(@, [type |-> "cash_in", amount |-> amount,
                              description |-> description])]

\* remove_cash without its guard
remove_cash_unchecked(pf, amount, description) ==
    [raised |-> "none",
     pf |-> [pf EXCEPT !.cash = @ - amount,
                       !.transaction_history =
                           Append(@, [type |-> "cash_out", amount |-> amount,
                                      description |-> description])]]

\* remove_cash that writes no transaction
remove_cash_unlogged(pf, amount, description) ==
    IF amount > pf.cash
    THEN [raised |-> "Insufficient cash", pf |-> pf]
    ELSE [raised |-> "none", pf |-> [pf EXCEPT !.cash = @ - amount]]

remove_cash(pf, amount, description) ==
    IF amount > pf.cash
    THEN [raised |-> "Insufficient cash", pf |-> pf]
    ELSE [raised |-> "none",
          pf |-> [pf EXCEPT !.cash = @ - amount,
                            !.transaction_history =
                                Append(@, [type |-> "cash_out", amount |-> amount,
                                           description |-> description])]]

RECURSIVE PutCollateral(_, _)
\* the notional of the open puts among the first k open positions
PutCollateral(positions, k) ==
    IF k = 0 THEN 0
    ELSE PutCollateral(positions, k - 1) +
         (IF positions[k].option_type = "put"
          THEN positions[k].strike * positions[k].contracts * 100 ELSE 0)

\* sell_put rejecting an order whose notional equals the cash
sell_put_strict(pf, position) ==
    LET required_cash == position.strike * position.contracts * 100
    IN  IF required_cash >= pf.cash
        THEN [raised |-> "Insufficient cash for cash-secured put", pf |-> pf]
        ELSE [raised |-> "none",
              pf |-> [add_cash(pf, total_premium(position), "Premium from selling put(s)")
                        EXCEPT !.options_positions = Append(@, position)]]

\* sell_put setting aside the collateral of the puts already open
sell_put_escrow(pf, position) ==
    LET required_cash == position.strike * position.contracts * 100
        free_cash == pf.cash - PutCollateral(pf.options_positions,
                                             Len(pf.options_positions))
    IN  IF required_cash > free_cash
        THEN [raised |-> "Insufficient cash for cash-secured put", pf |-> pf]
        ELSE [raised |-> "none",
              pf |-> [add_cash(pf, total_premium(position), "Premium from selling put(s)")
                        EXCEPT !.options_positions = Append(@, position)]]

sell_put(pf, position) ==
    LET required_cash == position.strike * position.contracts * 100
    IN  IF required_cash > pf.cash
        THEN [raised |-> "Insufficient cash for cash-secured put", pf |-> pf]
        ELSE [raised |-> "none",
              pf |-> [add_cash(pf, total_premium(position), "Premium from selling put(s)")
                        EXCEPT !.options_positions = Append(@, position)]]

\* sell_call asking only for a holding of the symbol, whatever its size
sell_call_any_holding(pf, position) ==
    IF position.symbol \notin DOMAIN pf.stock_positions
    THEN [raised |-> "Insufficient shares to sell covered call", pf |-> pf]
    ELSE [raised |-> "none",
          pf |-> [add_cash(pf, total_premium(position), "Premium from selling call(s)")
                    EXCEPT !.options_positions = Append(@, position)]]

sell_call(pf, position) ==
    IF \/ position.symbol \notin DOMAIN pf.stock_positions
       \/ pf.stock_positions[position.symbol].shares < position.contracts * 100
    THEN [raised |-> "Insufficient shares to sell covered call", pf |-> pf]
    ELSE [raised |-> "none",
          pf |-> [add_cash(pf, total_premium(position), "Premium from selling call(s)")
                    EXCEPT !.options_positions = Append(@, position)]]

\* assign_put adding the assigned shares to a holding already present
assign_put_merge(pf, i, stock_price, date) ==
    LET position == pf.options_positions[i]
        cost == position.strike * position.contracts * 100
        shares == position.contracts * 100
        r == remove_cash(pf, cost, "Put assigned: bought shares")
        held == IF position.symbol \in DOMAIN pf.stock_positions
                THEN pf.stock_positions[position.symbol].shares ELSE 0
        stock_pos == StockPosition(position.symbol, held + shares, position.strike,
                                   date, TRUE)
        closed == [position EXCEPT !.status = "assigned", !.exit_date = date,
                                   !.stock_price_at_exit = stock_price]
    IN  IF r.raised # "none"
        THEN r
        ELSE [raised |-> "none",
              pf |-> [r.pf EXCEPT
                        !.stock_positions = DictSet(@, position.symbol, stock_pos),
                        !.closed_positions = Append(@, closed),
                        !.options_positions = RemoveAt(@, i)]]

\* assign_put marking the position before the cash is taken
assign_put_early_status(pf, i, stock_price, date) ==
    LET position == pf.options_positions[i]
        cost == position.strike * position.contracts * 100
        shares == position.contracts * 100
        marked == [pf EXCEPT !.options_positions[i].status = "assigned",
                             !.options_positions[i].exit_date = date]
        r == remove_cash(marked, cost, "Put assigned: bought shares")
        stock_pos == StockPosition(position.symbol, shares, position.strike, date, TRUE)
        closed == [position EXCEPT !.status = "assigned", !.exit_date = date,
                                   !.stock_price_at_exit = stock_price]
    IN  IF r.raised # "none"
        THEN r
        ELSE [raised |-> "none",
              pf |-> [r.pf EXCEPT
                        !.stock_positions = DictSet(@, position.symbol, stock_pos),
                        !.closed_positions = Append(@, closed),
                        !.options_positions = RemoveAt(@, i)]]

assign_put(pf, i, stock_price, date) ==
    LET position == pf.options_positions[i]
        cost == position.strike * position.contracts * 100
        shares == position.contracts * 100
        r == remove_cash(pf, cost, "Put assigned: bought shares")
        stock_pos == StockPosition(position.symbol, shares, position.strike, date, TRUE)
        closed == [position EXCEPT !.status = "assigned", !.exit_date = date,
                                   !.stock_price_at_exit = stock_price]
    IN  IF r.raised # "none"
        THEN r
        ELSE [raised |-> "none",
              pf |-> [r.pf EXCEPT
                        !.stock_positions = DictSet(@, position.symbol, stock_pos),
                        !.closed_positions = Append(@, closed),
                        !.options_positions = RemoveAt(@, i)]]

\* assign_call leaving the contract in the open list as well
assign_call_keep_open(pf, i, stock_price, date) ==
    LET position == pf.options_positions[i]
        proceeds == position.strike * position.contracts * 100
        shares == position.contracts * 100
        sym == position.symbol
        held == pf.stock_positions
        stocks == IF sym \in DOMAIN held
                  THEN IF held[sym].shares = shares
                       THEN DictDel(held, sym)
                       ELSE [held EXCEPT ![sym].shares = @ - shares]
                  ELSE held
        closed == [position EXCEPT !.status = "called_away", !.exit_date = date,
                                   !.stock_price_at_exit = stock_price]
    IN  [raised |-> "none",
         pf |-> [add_cash([pf EXCEPT !.stock_positions = stocks], proceeds,
                          "Call assigned: sold shares")
                   EXCEPT !.closed_positions = Append(@, closed),
                          !.options_positions = [@ EXCEPT ![i] = closed]]]

assign_call(pf, i, stock_price, date) ==
    LET position == pf.options_positions[i]
        proceeds == position.strike * position.contracts * 100
        shares == position.contracts * 100
        sym == position.symbol
        held == pf.stock_positions
        stocks == IF sym \in DOMAIN held
                  THEN IF held[sym].shares = shares
                       THEN DictDel(held, sym)
                       ELSE [held EXCEPT ![sym].shares = @ - shares]
                  ELSE held
        closed == [position EXCEPT !.status = "called_away", !.exit_date = date,
                                   !.stock_price_at_exit = stock_price]
    IN  [raised |-> "none",
         pf |-> [add_cash([pf EXCEPT !.stock_positions = stocks], proceeds,
                          "Call assigned: sold shares")
                   EXCEPT !.closed_positions = Append(@, closed),
                          !.options_positions = RemoveAt(@, i)]]

\* expire_worthless putting the contract at the head of the closed list
expire_worthless_front(pf, i, date) ==
    LET position == pf.options_positions[i]
        closed == [position EXCEPT !.status = "expired_worthless", !.exit_date = date]
    IN  [raised |-> "none",
         pf |-> [pf EXCEPT !.closed_positions = <<closed>> \o @,
                           !.options_positions = RemoveAt(@, i)]]

\* expire_worthless using the CLOSED member of PositionStatus
expire_worthless_closed(pf, i, date) ==
    LET position == pf.options_positions[i]
        closed == [position EXCEPT !.status = "closed", !.exit_date = date]
    IN  [raised |-> "none",
         pf |-> [pf EXCEPT !.closed_positions = Append(@, closed),
                           !.options_positions = RemoveAt(@, i)]]

expire_worthless(pf, i, date) ==
    LET position == pf.options_positions[i]
        closed == [position EXCEPT !.status = "expired_worthless", !.exit_date = date]
    IN  [raised |-> "none",
         pf |-> [pf EXCEPT !.closed_positions = Append(@, closed),
                           !.options_positions = RemoveAt(@, i)]]

(***************************************************************************)
(* Simulation engine (WheelSimulator)                                      *)
(***************************************************************************)
Result(op, arg, raised, value, events) ==
    [op |-> op, arg |-> arg, raised |-> raised, value |-> value, events |-> events]

\* the in-the-money tests of _process_expirations
put_in_the_money_or_at(stock_price, strike) == stock_price <= strike
put_in_the_money(stock_price, strike) == stock_price < strike
call_in_the_money(stock_price, strike) == stock_price > strike

\* One resolution of _process_expirations: the position at index i of the
\* live open list, valued at stock_price on date.
resolve(pf, i, stock_price, date) ==
    LET position == pf.options_positions[i]
    IN  IF position.option_type = "put"
        THEN IF put_in_the_money(stock_price, position.strike)
             THEN [r |-> assign_put(pf, i, stock_price, date),
                   event |-> [type |-> "put_assigned", symbol |-> position.symbol,
                              strike |-> position.strike,
                              shares |-> position.contracts * 100,
                              total_cost |-> position.strike * position.contracts * 100,
                              stock_price |-> stock_price]]
             ELSE [r |-> expire_worthless(pf, i, date),
                   event |-> [type |-> "expired_worthless", symbol |-> position.symbol,
                              strike |-> position.strike, option_type |-> "PUT",
                              premium_kept |-> total_premium(position),
                              stock_price |-> stock_price]]
        ELSE IF call_in_the_money(stock_price, position.strike)
             THEN [r |-> assign_call(pf, i, stock_price, date),
                   event |-> [type |-> "call_assigned", symbol |-> position.symbol,
                              strike |-> position.strike,
                              shares |-> position.contracts * 100,
                              total_proceeds |-> position.strike * position.contracts * 100,
                              stock_price |-> stock_price]]
             ELSE [r |-> expire_worthless(pf, i, date),
                   event |-> [type |-> "expired_worthless", symbol |-> position.symbol,
                              strike |-> position.strike, option_type |-> "CALL",
                              premium_kept |-> total_premium(position),
                              stock_price |-> stock_price]]

\* the spot a due position is resolved with: the close of the current date
resolution_price_at_expiration(cache, position, date) ==
    get_price_at_date(cache, position.symbol, position.expiration)
resolution_price(cache, position, date) ==
    get_price_at_date(cache, position.symbol, date)

\* The loop of _process_expirations over the snapshot list(options_positions):
\* k is the loop position in the snapshot, removed the number of snapshot
\* elements already taken out of the live list, so that the k-th object of
\* the snapshot is at index k - removed of the live list.
RECURSIVE expirations_loop(_, _, _, _, _, _, _)
RECURSIVE expirations_loop_live(_, _, _, _, _, _, _)
RECURSIVE expirations_loop_newest_first(_, _, _, _, _, _, _)

\* the loop running over the live list, which shrinks under it
expirations_loop_live(pf, cache, snapshot, k, removed, events, date) ==
    IF k > Len(pf.options_positions)
    THEN [raised |-> "none", pf |-> pf, events |-> events]
    ELSE IF ~is_expired(pf.options_positions[k], date)
    THEN expirations_loop_live(pf, cache, snapshot, k + 1, removed, events, date)
    ELSE LET stock_price == resolution_price(cache, pf.options_positions[k], date)
             res == resolve(pf, k, stock_price, date)
         IN  IF res.r.raised # "none"
             THEN [raised |-> res.r.raised, pf |-> res.r.pf, events |-> events]
             ELSE expirations_loop_live(res.r.pf, cache, snapshot, k + 1, removed + 1,
                                        Append(events, res.event), date)

\* the loop putting each event in front of the earlier ones
expirations_loop_newest_first(pf, cache, snapshot, k, removed, events, date) ==
    IF k > Len(snapshot)
    THEN [raised |-> "none", pf |-> pf, events |-> events]
    ELSE IF ~is_expired(snapshot[k], date)
    THEN expirations_loop_newest_first(pf, cache, snapshot, k + 1, removed, events, date)
    ELSE LET stock_price == resolution_price(cache, snapshot[k], date)
             res == resolve(pf, k - removed, stock_price, date)
         IN  IF res.r.raised # "none"
             THEN [raised |-> res.r.raised, pf |-> res.r.pf, events |-> events]
             ELSE expirations_loop_newest_first(res.r.pf, cache, snapshot, k + 1,
                                                removed + 1, <<res.event>> \o events,
                                                date)

expirations_loop(pf, cache, snapshot, k, removed, events, date) ==
    IF k > Len(snapshot)
    THEN [raised |-> "none", pf |-> pf, events |-> events]
    ELSE IF ~is_expired(snapshot[k], date)
    THEN expirations_loop(pf, cache, snapshot, k + 1, removed, events, date)
    ELSE LET stock_price == resolution_price(cache, snapshot[k], date)
             res == resolve(pf, k - removed, stock_price, date)
         IN  IF res.r.raised # "none"
             THEN [raised |-> res.r.raised, pf |-> res.r.pf, events |-> events]
             ELSE expirations_loop(res.r.pf, cache, snapshot, k + 1, removed + 1,
                                   Append(events, res.event), date)

process_expirations(pf, cache, date) ==
    expirations_loop(pf, cache, pf.options_positions, 1, 0, <<>>, date)

SetPortfolio(pf) ==
    /\ cash' = pf.cash
    /\ stock_positions' = pf.stock_positions
    /\ options_positions' = pf.options_positions
    /\ closed_positions' = pf.closed_positions
    /\ transaction_history' = pf.transaction_history

Init ==
    /\ cash = Portfolio(INITIAL_CAPITAL).cash
    /\ stock_positions = Portfolio(INITIAL_CAPITAL).stock_positions
    /\ options_positions = Portfolio(INITIAL_CAPITAL).options_positions
    /\ closed_positions = Portfolio(INITIAL_CAPITAL).closed_positions
    /\ transaction_history = Portfolio(INITIAL_CAPITAL).transaction_history
    /\ current_date = None
    /\ trading_dates = <<>>
    /\ current_date_index = 0
    /\ data_cache = EmptyDict
    /\ ret = Result("new", <<>>, "none", TRUE, <<>>)

NoArg == [days |-> 0]
Accepted == Len(options_positions) + Len(closed_positions)

\* initialize(): called once, on the freshly constructed simulator
Initialize ==
    /\ ret.op = "new"
    /\ \E data \in DataSets :
         LET dates == get_available_dates(data, STOCKS[1])
         IN  /\ data_cache' = data
             /\ trading_dates' = dates
             /\ current_date_index' = 0
             /\ IF dates = <<>>
                THEN /\ current_date' = current_date
                     /\ ret' = Result("initialize", NoArg, "No trading dates available",
                                      FALSE, <<>>)
                ELSE /\ current_date' = dates[1]
                     /\ ret' = Result("initialize", NoArg, "none", TRUE, <<>>)
    /\ UNCHANGED pfvars

Initialized == current_date # None

\* the end-of-data test of advance_day, on the index already moved
past_the_end_strict(index, dates) == index > Len(dates)
past_the_end(index, dates) == index >= Len(dates)

\* advance_day(days)
advance_day(days) ==
    LET index == current_date_index + days
        arg == [days |-> days]
    IN  /\ current_date_index' =
               IF past_the_end(index, trading_dates)
               THEN Len(trading_dates) - 1 ELSE index
        /\ IF past_the_end(index, trading_dates)
           THEN /\ ret' = Result("advance_day", arg, "none", FALSE, <<>>)
                /\ UNCHANGED <<pfvars, current_date>>
           ELSE IF ~InRange(trading_dates, index)
           THEN /\ ret' = Result("advance_day", arg, "list index out of range",
                                 FALSE, <<>>)
                /\ UNCHANGED <<pfvars, current_date>>
           ELSE LET date == PyIndex(trading_dates, index)
                    r == process_expirations(ThePortfolio, data_cache, date)
                IN  /\ current_date' = date
                    /\ SetPortfolio(r.pf)
                    /\ ret' = IF r.raised = "none"
                              THEN Result("advance_day", arg, "none", TRUE, r.events)
                              ELSE Result("advance_day", arg, r.raised, FALSE, <<>>)
        /\ UNCHANGED <<trading_dates, data_cache>>

AdvanceDay ==
    /\ Initialized
    /\ \E days \in 1..MaxDays : advance_day(days)

\* the index of the expiration date: trading days ahead, clamped to the last
future_index_one_more(index, days_to_expiration, dates) ==
    Min(index + days_to_expiration + 1, Len(dates) - 1)
future_index(index, days_to_expiration, dates) ==
    Min(index + days_to_expiration, Len(dates) - 1)

\* "except ValueError": what is left of the Portfolio's error after the handler
except_nothing(raised) == raised
except_ValueError(raised) == "none"

\* d1 divides by the strike (S / K) and is computed only for T > 0
ZeroDivision(strike, T) == T > 0 /\ strike = 0

\* the body shared by sell_put_option and sell_call_option
sell_option(option_type, symbol, strike, days_to_expiration, contracts) ==
    LET stock_price == get_price_at_date(data_cache, symbol, current_date)
        bs == BlackScholesValue(data_cache, symbol)
        T == days_to_expiration
        premium == IF option_type = "put"
                   THEN put_price(stock_price, strike, T, bs)
                   ELSE call_price(stock_price, strike, T, bs)
        index == future_index(current_date_index, days_to_expiration, trading_dates)
        arg == [symbol |-> symbol, strike |-> strike,
                days_to_expiration |-> days_to_expiration, contracts |-> contracts]
        op == IF option_type = "put" THEN "sell_put_option" ELSE "sell_call_option"
    IN  IF ZeroDivision(strike, T)
        THEN /\ ret' = Result(op, arg, "float division by zero", FALSE, <<>>)
             /\ UNCHANGED pfvars
        ELSE IF ~InRange(trading_dates, index)
        THEN /\ ret' = Result(op, arg, "list index out of range", FALSE, <<>>)
             /\ UNCHANGED pfvars
        ELSE LET position == OptionsPosition(symbol, option_type, strike,
                                             PyIndex(trading_dates, index),
                                             premium, contracts, current_date, stock_price)
                 r == IF option_type = "put"
                      THEN sell_put(ThePortfolio, position)
                      ELSE sell_call(ThePortfolio, position)
             IN  /\ SetPortfolio(r.pf)
                 /\ ret' = Result(op, arg, except_ValueError(r.raised),
                                  r.raised = "none", <<>>)

SellPutOption ==
    /\ Initialized
    /\ Accepted < MaxPositions
    /\ \E symbol \in Traded, strike \in Strikes, days_to_expiration \in 0..MaxDTE,
          contracts \in 1..MaxContracts :
         sell_option("put", symbol, strike, days_to_expiration, contracts)
    /\ UNCHANGED simvars

SellCallOption ==
    /\ Initialized
    /\ Accepted < MaxPositions
    /\ \E symbol \in Traded, strike \in Strikes, days_to_expiration \in 0..MaxDTE,
          contracts \in 1..MaxContracts :
         sell_option("call", symbol, strike, days_to_expiration, contracts)
    /\ UNCHANGED simvars

Next == Initialize \/ AdvanceDay \/ SellPutOption \/ SellCallOption

Spec == Init /\ [][Next]_vars

\* the caller keeps calling advance_day(n), n >= 1
FairSpec == Spec /\ WF_vars(AdvanceDay)

(***************************************************************************)
(* The engine driven by a caller that checks none of its arguments:        *)
(* advance_day takes days <= 0 and the sell commands take a strike of 0    *)
(* (the UI's strike field has min_value 0.0)                               *)
(***************************************************************************)
UncheckedStrikes == {0, 500}

AdvanceDayBack ==
    /\ Initialized
    /\ \E days \in (0 - MaxBack)..0 :
         /\ current_date_index + days >= 0 - MaxBack
         /\ advance_day(days)

SellPutOptionUnchecked ==
    /\ Initialized
    /\ Accepted < MaxUnchecked
    /\ \E symbol \in Traded, strike \in UncheckedStrikes,
          days_to_expiration \in 0..MaxDTE :
         sell_option("put", symbol, strike, days_to_expiration, 1)
    /\ UNCHANGED simvars

SellCallOptionUnchecked ==
    /\ Initialized
    /\ Accepted < MaxUnchecked
    /\ \E symbol \in Traded, strike \in UncheckedStrikes,
          days_to_expiration \in 0..MaxDTE :
         sell_option("call", symbol, strike, days_to_expiration, 1)
    /\ UNCHANGED simvars

UncheckedNext ==
    \/ Initialize \/ AdvanceDay \/ AdvanceDayBack
    \/ SellPutOptionUnchecked \/ SellCallOptionUnchecked

UncheckedSpec == Init /\ [][UncheckedNext]_vars

(***************************************************************************)
(* The engine selling single contracts that run up to MaxLongDTE trading   *)
(* days, so that one advance_day finds positions due and positions not due *)
(***************************************************************************)
SellPutOptionLong ==
    /\ Initialized
    /\ Accepted < MaxPositions
    /\ \E symbol \in Traded, strike \in Strikes, days_to_expiration \in 0..MaxLongDTE :
         sell_option("put", symbol, strike, days_to_expiration, 1)
    /\ UNCHANGED simvars

SellCallOptionLong ==
    /\ Initialized
    /\ Accepted < MaxPositions
    /\ \E symbol \in Traded, strike \in Strikes, days_to_expiration \in 0..MaxLongDTE :
         sell_option("call", symbol, strike, days_to_expiration, 1)
    /\ UNCHANGED simvars

LongDatedNext == Initialize \/ AdvanceDay \/ SellPutOptionLong \/ SellCallOptionLong

LongDatedSpec == Init /\ [][LongDatedNext]_vars

(***************************************************************************)
(* The Portfolio driven directly: one call of one Portfolio method a step  *)
(***************************************************************************)
Orders(option_type) ==
    {OptionsPosition(symbol, option_type, strike, TradingDate(NumDates),
                     IF symbol = STOCKS[1] THEN MaxPremium ELSE 0,
                     contracts, TradingDate(1), 400) :
        symbol \in Symbols, strike \in Strikes, contracts \in 1..MaxContracts}

Open(option_type) ==
    {i \in 1..Len(options_positions) : options_positions[i].option_type = option_type}

CallSellPut ==
    /\ Accepted < MaxPositions
    /\ \E position \in Orders("put") :
         LET r == sell_put(ThePortfolio, position)
         IN  /\ SetPortfolio(r.pf)
             /\ ret' = Result("sell_put", [position |-> position], r.raised,
                              r.raised = "none", <<>>)
    /\ UNCHANGED simvars

CallSellCall ==
    /\ Accepted < MaxPositions
    /\ \E position \in Orders("call") :
         LET r == sell_call(ThePortfolio, position)
         IN  /\ SetPortfolio(r.pf)
             /\ ret' = Result("sell_call", [position |-> position], r.raised,
                              r.raised = "none", <<>>)
    /\ UNCHANGED simvars

CallAssignPut ==
    /\ \E i \in Open("put") :
         LET r == assign_put(ThePortfolio, i, 200, TradingDate(NumDates))
         IN  /\ SetPortfolio(r.pf)
             /\ ret' = Result("assign_put",
                              [position |-> options_positions[i], index |-> i,
                               stock_price |-> 200, date |-> TradingDate(NumDates)],
                              r.raised, r.raised = "none", <<>>)
    /\ UNCHANGED simvars

CallAssignCall ==
    /\ \E i \in Open("call") :
         LET r == assign_call(ThePortfolio, i, 700, TradingDate(NumDates))
         IN  /\ SetPortfolio(r.pf)
             /\ ret' = Result("assign_call",
                              [position |-> options_positions[i], index |-> i,
                               stock_price |-> 700, date |-> TradingDate(NumDates)],
                              r.raised, r.raised = "none", <<>>)
    /\ UNCHANGED simvars

CallExpireWorthless ==
    /\ \E i \in 1..Len(options_positions) :
         LET r == expire_worthless(ThePortfolio, i, TradingDate(NumDates))
         IN  /\ SetPortfolio(r.pf)
             /\ ret' = Result("expire_worthless",
                              [position |-> options_positions[i], index |-> i,
                               date |-> TradingDate(NumDates)],
                              r.raised, r.raised = "none", <<>>)
    /\ UNCHANGED simvars

PortfolioNext ==
    CallSellPut \/ CallSellCall \/ CallAssignPut \/ CallAssignCall \/ CallExpireWorthless

PortfolioSpec == Init /\ [][PortfolioNext]_vars

(***************************************************************************)
(* The pricing functions called directly, each on arguments of its own     *)
(***************************************************************************)
CallCallPrice ==
    /\ \E S \in (0 - 1)..MaxSpot, K \in (0 - 1)..MaxSpot, T \in (0 - 1)..MaxDTE,
          bs \in (0 - 1)..MaxPremium :
         ret' = Result("call_price", [S |-> S, K |-> K, T |-> T, bs |-> bs], "none",
                       call_price(S, K, T, bs), <<>>)
    /\ UNCHANGED <<pfvars, simvars>>

CallPutPrice ==
    /\ \E S \in (0 - 1)..MaxSpot, K \in (0 - 1)..MaxSpot, T \in (0 - 1)..MaxDTE,
          bs \in (0 - 1)..MaxPremium :
         ret' = Result("put_price", [S |-> S, K |-> K, T |-> T, bs |-> bs], "none",
                       put_price(S, K, T, bs), <<>>)
    /\ UNCHANGED <<pfvars, simvars>>

CallGenerateStrikePrices ==
    /\ \E stock_price \in StrikeSpots, num_strikes \in 0..MaxStrikesEachSide,
          spacing_pct \in Spacings :
         ret' = Result("generate_strike_prices",
                       [stock_price |-> stock_price, num_strikes |-> num_strikes,
                        spacing_pct |-> spacing_pct], "none",
                       generate_strike_prices(stock_price, num_strikes, spacing_pct),
                       <<>>)
    /\ UNCHANGED <<pfvars, simvars>>

PricingNext == CallCallPrice \/ CallPutPrice \/ CallGenerateStrikePrices

PricingSpec == Init /\ [][PricingNext]_vars

(***************************************************************************)
(* Properties                                                              *)
(***************************************************************************)
Notional(position) == position.strike * position.contracts * 100

\* C1: after any sequence of sell_put, sell_call, assign_put, assign_call and
\* expire_worthless calls, accepted or rejected, the cash balance is >= 0.
CashNeverNegative == cash >= 0

\* a put assignment that takes the cash down to exactly 0
CashNeverNegative_Witness ==
    /\ ret.op = "assign_put"
    /\ ret.raised = "none"
    /\ cash = 0

\* C2: sell_put is accepted exactly when cash >= strike * contracts * 100
\* (equality is accepted); when rejected it raises the insufficient-collateral
\* error and leaves cash, positions, holdings and the log as they were.
SellPutIffCollateral ==
    [][ret'.op = "sell_put" =>
         /\ (ret'.raised = "none") <=> (cash >= Notional(ret'.arg.position))
         /\ ret'.raised # "none" =>
               /\ ret'.raised = "Insufficient cash for cash-secured put"
               /\ UNCHANGED pfvars]_vars

\* a put order rejected for lack of collateral
SellPutIffCollateral_Witness ==
    /\ ret.op = "sell_put"
    /\ ret.raised = "Insufficient cash for cash-secured put"
    /\ cash < Notional(ret.arg.position)

NewlyClosed == (Len(closed_positions) + 1)..Len(closed_positions')

\* C5: a position resolved by advance_day, valued at the closing price of the
\* current date, is assigned iff it is a put with spot < strike, called away
\* iff it is a call with spot > strike, and expires worthless otherwise (so
\* always when spot = strike); a call that resolves only worthless positions
\* moves no cash and no shares.
ResolutionRule ==
    [][ret'.op = "advance_day" =>
         /\ \A k \in NewlyClosed :
               LET p == closed_positions'[k]
                   spot == get_price_at_date(data_cache, p.symbol, current_date')
               IN  /\ p.exit_date = current_date'
                   /\ (p.status = "assigned") <=>
                          (p.option_type = "put" /\ spot < p.strike)
                   /\ (p.status = "called_away") <=>
                          (p.option_type = "call" /\ spot > p.strike)
                   /\ (p.status = "expired_worthless") <=>
                          \/ (p.option_type = "put" /\ spot >= p.strike)
                          \/ (p.option_type = "call" /\ spot <= p.strike)
         /\ (\A k \in NewlyClosed : closed_positions'[k].status = "expired_worthless")
               => UNCHANGED <<cash, stock_positions, transaction_history>>]_vars

\* an advance_day that resolved a put and a call at spot = strike
ResolutionRule_Witness ==
    /\ ret.op = "advance_day"
    /\ \E k, l \in 1..Len(closed_positions) :
          LET p == closed_positions[k]
              q == closed_positions[l]
          IN  /\ p.option_type = "put" /\ q.option_type = "call"
              /\ p.exit_date = current_date /\ q.exit_date = current_date
              /\ p.status = "expired_worthless" /\ q.status = "expired_worthless"
              /\ get_price_at_date(data_cache, p.symbol, current_date) = p.strike
              /\ get_price_at_date(data_cache, q.symbol, current_date) = q.strike

\* C6: an accepted assign_put takes exactly strike * contracts * 100 from
\* cash, leaves the symbol with a holding of contracts * 100 shares at cost
\* basis strike flagged assigned-from-put, closes the contract as ASSIGNED
\* with exit date and exit spot at the end of closed_positions, and changes no
\* other holding and no other position.
AssignPutEffect ==
    [][(ret'.op = "assign_put" /\ ret'.raised = "none") =>
         LET p == ret'.arg.position
             i == ret'.arg.index
         IN  /\ cash' = cash - Notional(p)
             /\ DOMAIN stock_positions' = DOMAIN stock_positions \cup {p.symbol}
             /\ stock_positions'[p.symbol].shares = p.contracts * 100
             /\ stock_positions'[p.symbol].cost_basis = p.strike
             /\ stock_positions'[p.symbol].assigned_from_put
             /\ \A s \in DOMAIN stock_positions \ {p.symbol} :
                   stock_positions'[s] = stock_positions[s]
             /\ options_positions[i] = p
             /\ options_positions' = RemoveAt(options_positions, i)
             /\ closed_positions' =
                   Append(closed_positions,
                          [p EXCEPT !.status = "assigned",
                                    !.exit_date = ret'.arg.date,
                                    !.stock_price_at_exit = ret'.arg.stock_price])]_vars

\* a put assigned on a symbol that an earlier assigned put had already left
\* a holding of, while a holding of another symbol exists
AssignPutEffect_Witness ==
    /\ ret.op = "assign_put"
    /\ ret.raised = "none"
    /\ Cardinality(DOMAIN stock_positions) = 2
    /\ \E k, l \in 1..Len(closed_positions) :
          /\ k < l
          /\ l = Len(closed_positions)
          /\ closed_positions[k].status = "assigned"
          /\ closed_positions[l].status = "assigned"
          /\ closed_positions[k].symbol = ret.arg.position.symbol
          /\ closed_positions[l].symbol = ret.arg.position.symbol

\* C7: assign_put with cash < strike * contracts * 100 raises the
\* insufficient-cash error and leaves cash, holdings, log and closed list as
\* they were and the contract in the open list, OPEN and without exit date.
AssignPutRejected ==
    [][ret'.op = "assign_put" =>
         LET p == ret'.arg.position
             i == ret'.arg.index
         IN  /\ (cash < Notional(p)) <=> (ret'.raised = "Insufficient cash")
             /\ cash < Notional(p) =>
                   /\ UNCHANGED <<cash, stock_positions, transaction_history,
                                  closed_positions>>
                   /\ Len(options_positions') = Len(options_positions)
                   /\ options_positions'[i] = p
                   /\ options_positions'[i].status = "open"
                   /\ options_positions'[i].exit_date = None]_vars

\* a put assignment refused for lack of cash
AssignPutRejected_Witness ==
    /\ ret.op = "assign_put"
    /\ ret.raised = "Insufficient cash"
    /\ cash < Notional(ret.arg.position)
    /\ ret.arg.position \in {options_positions[i] : i \in 1..Len(options_positions)}

\* C8: every stock holding in the portfolio has more than 0 shares.
HoldingsPositive ==
    \A s \in DOMAIN stock_positions : stock_positions[s].shares > 0

\* C9: assign_call takes exactly contracts * 100 shares out of the symbol's
\* holding (removing the entry when that is all of it), credits strike *
\* contracts * 100 to cash and closes the contract as CALLED_AWAY; the credit
\* is always matched by contracts * 100 shares leaving the holding.
AssignCallEffect ==
    [][ret'.op = "assign_call" =>
         LET p == ret'.arg.position
             i == ret'.arg.index
             n == p.contracts * 100
         IN  /\ ret'.raised = "none"
             /\ cash' = cash + Notional(p)
             /\ p.symbol \in DOMAIN stock_positions
             /\ IF stock_positions[p.symbol].shares = n
                THEN p.symbol \notin DOMAIN stock_positions'
                ELSE /\ p.symbol \in DOMAIN stock_positions'
                     /\ stock_positions'[p.symbol].shares =
                            stock_positions[p.symbol].shares - n
             /\ options_positions' = RemoveAt(options_positions, i)
             /\ closed_positions' =
                   Append(closed_positions,
                          [p EXCEPT !.status = "called_away",
                                    !.exit_date = ret'.arg.date,
                                    !.stock_price_at_exit = ret'.arg.stock_price])]_vars

\* C10: a put assigned on a symbol already held leaves one holding with the
\* shares held before plus the contracts * 100 assigned shares.
AssignPutMerges ==
    [][(ret'.op = "assign_put" /\ ret'.raised = "none"
          /\ ret'.arg.position.symbol \in DOMAIN stock_positions) =>
         LET p == ret'.arg.position
         IN  /\ p.symbol \in DOMAIN stock_positions'
             /\ stock_positions'[p.symbol].shares =
                    stock_positions[p.symbol].shares + p.contracts * 100]_vars

\* C11: sell_call is accepted exactly when a holding of the symbol exists with
\* shares >= contracts * 100; accepted, it adds the total premium to the cash
\* and appends the contract to the open positions, holdings unchanged;
\* rejected, it raises the coverage error and leaves the portfolio unchanged.
SellCallIffCovered ==
    [][ret'.op = "sell_call" =>
         LET p == ret'.arg.position
             covered == /\ p.symbol \in DOMAIN stock_positions
                        /\ stock_positions[p.symbol].shares >= p.contracts * 100
         IN  /\ (ret'.raised = "none") <=> covered
             /\ covered =>
                   /\ cash' = cash + total_premium(p)
                   /\ options_positions' = Append(options_positions, p)
                   /\ UNCHANGED <<stock_positions, closed_positions>>
             /\ ~covered =>
                   /\ ret'.raised = "Insufficient shares to sell covered call"
                   /\ UNCHANGED pfvars]_vars

\* a call on every share of the holding, with a premium, has been accepted
SellCallIffCovered_Witness ==
    /\ ret.op = "sell_call" /\ ret.raised = "none"
    /\ total_premium(ret.arg.position) > 0
    /\ stock_positions[ret.arg.position.symbol].shares =
           ret.arg.position.contracts * 100
    /\ ret.arg.position.contracts = MaxContracts

\* C12: expire_worthless marks the contract expired_worthless, sets its exit
\* date and moves it from the open positions to the end of the closed ones;
\* cash, holdings and the transaction log stay as they were.
ExpireWorthlessEffect ==
    [][ret'.op = "expire_worthless" =>
         LET p == ret'.arg.position
         IN  /\ ret'.raised = "none"
             /\ p = options_positions[ret'.arg.index]
             /\ options_positions' = RemoveAt(options_positions, ret'.arg.index)
             /\ closed_positions' =
                    Append(closed_positions,
                           [p EXCEPT !.status = "expired_worthless",
                                     !.exit_date = ret'.arg.date])
             /\ UNCHANGED <<cash, stock_positions, transaction_history>>]_vars

\* a contract expired while another was closed before it, one stays open and
\* shares are held
ExpireWorthlessEffect_Witness ==
    /\ ret.op = "expire_worthless"
    /\ Len(closed_positions) >= 2
    /\ closed_positions[1].status # "expired_worthless"
    /\ Len(options_positions) >= 1
    /\ DOMAIN stock_positions # {}

\* C13: an advance_day(n) that would move past the last trading date sets the
\* index to the last one and returns "not advanced" with no events, the
\* portfolio and the current date unchanged; from then on the index stays at
\* the last one and every advance_day(m), m >= 1, returns "not advanced" with
\* no events and changes nothing.
AdvancePastEndSticks ==
    [][/\ (ret'.op = "advance_day"
            /\ current_date_index + ret'.arg.days >= Len(trading_dates)) =>
              /\ current_date_index' = Len(trading_dates) - 1
              /\ ret'.raised = "none" /\ ~ret'.value /\ ret'.events = <<>>
              /\ UNCHANGED <<pfvars, current_date>>
       /\ (Initialized /\ current_date_index = Len(trading_dates) - 1) =>
              /\ current_date_index' = current_date_index
              /\ (ret'.op = "advance_day" /\ ret'.arg.days >= 1) =>
                    /\ ret'.raised = "none" /\ ~ret'.value /\ ret'.events = <<>>
                    /\ UNCHANGED <<pfvars, simvars>>]_vars

\* the longest step was refused before the last date was ever the current
\* one, with a contract still open
AdvancePastEndSticks_Witness ==
    /\ ret.op = "advance_day" /\ ret.raised = "none" /\ ~ret.value
    /\ ret.arg.days = MaxDays
    /\ current_date_index = Len(trading_dates) - 1
    /\ current_date # trading_dates[Len(trading_dates)]
    /\ Len(options_positions) >= 1

\* C14: after a successful initialize, whatever advance_day(n), n any integer,
\* and sell commands are issued, 0 <= current_date_index <= len(trading_dates) - 1.
ClockIndexInRange ==
    Initialized =>
        /\ 0 <= current_date_index
        /\ current_date_index <= Len(trading_dates) - 1

TerminalStatuses == {"expired_worthless", "assigned", "called_away"}

\* C15: a contract's status changes only from open to exactly one of
\* expired_worthless, assigned, called_away; a contract with one of these
\* never changes again; no contract ever has the status closed.
StatusLifecycle ==
    /\ [](/\ \A i \in 1..Len(options_positions) : options_positions[i].status = "open"
          /\ \A i \in 1..Len(closed_positions) :
                closed_positions[i].status \in TerminalStatuses)
    /\ [][/\ Len(closed_positions') >= Len(closed_positions)
          /\ \A i \in 1..Len(closed_positions) :
                closed_positions'[i] = closed_positions[i]
          /\ \A i \in NewlyClosed :
                \E j \in 1..Len(options_positions) :
                   /\ options_positions[j].status = "open"
                   /\ [closed_positions'[i] EXCEPT
                          !.status = "open", !.exit_date = None,
                          !.stock_price_at_exit = options_positions[j].stock_price_at_exit]
                        = options_positions[j]]_vars

\* one behaviour has closed a contract in each of the three ways
StatusLifecycle_Witness ==
    TerminalStatuses =
        {closed_positions[i].status : i \in 1..Len(closed_positions)}

\* C16: collateral is checked and not set aside: a put whose own notional is
\* at most the cash is accepted whatever puts are already open, so that two
\* or more puts can be open with a combined notional above the cash.
CollateralNotEscrowed ==
    [][(ret'.op = "sell_put" /\ Notional(ret'.arg.position) <= cash) =>
         /\ ret'.raised = "none"
         /\ options_positions' = Append(options_positions, ret'.arg.position)]_vars

\* a put has just been accepted and the open puts need more than the cash
CollateralNotEscrowed_Witness ==
    /\ ret.op = "sell_put" /\ ret.raised = "none"
    /\ Cardinality(Open("put")) >= 2
    /\ PutCollateral(options_positions, Len(options_positions)) > cash

\* C17: an accepted sell_put adds exactly premium_received * contracts * 100
\* to the cash, appends one cash_in transaction of that amount to the log and
\* appends the contract to the end of the open positions; holdings, closed
\* positions and the open positions already there, in their order, are
\* unchanged.
SellPutEffect ==
    [][(ret'.op = "sell_put" /\ ret'.raised = "none") =>
         LET p == ret'.arg.position
             amount == p.premium_received * p.contracts * 100
         IN  /\ cash' = cash + amount
             /\ Len(transaction_history') = Len(transaction_history) + 1
             /\ SubSeq(transaction_history', 1, Len(transaction_history))
                    = transaction_history
             /\ transaction_history'[Len(transaction_history')].type = "cash_in"
             /\ transaction_history'[Len(transaction_history')].amount = amount
             /\ options_positions' = Append(options_positions, p)
             /\ UNCHANGED <<stock_positions, closed_positions>>]_vars

\* a put with a premium was accepted by a portfolio that had an open
\* position, a closed one and a holding
SellPutEffect_Witness ==
    /\ ret.op = "sell_put" /\ ret.raised = "none"
    /\ total_premium(ret.arg.position) > 0
    /\ Len(options_positions) >= 2
    /\ Len(closed_positions) >= 1
    /\ DOMAIN stock_positions # {}

\* the two commands of the engine that open a position
EngineSells == {"sell_put_option", "sell_call_option"}

\* C18: a position opened by sell_put_option or sell_call_option at clock
\* index i with days_to_expiration d expires on
\* trading_dates[min(i + d, len(trading_dates) - 1)] and has the engine's
\* current date as entry date.
ExpirationByTradingDays ==
    [][(ret'.op \in EngineSells /\ ret'.value) =>
         /\ Len(options_positions') = Len(options_positions) + 1
         /\ LET p == options_positions'[Len(options_positions')]
                 i == current_date_index
                 d == ret'.arg.days_to_expiration
             IN  /\ p.expiration =
                        trading_dates[Min(i + d, Len(trading_dates) - 1) + 1]
                 /\ p.entry_date = current_date
                 /\ p.symbol = ret'.arg.symbol /\ p.strike = ret'.arg.strike
                 /\ p.contracts = ret'.arg.contracts]_vars

\* a position opened on the last index with a day to run: its expiration is
\* the last trading date, and the current date is an earlier one
ExpirationByTradingDays_Witness ==
    /\ ret.op \in EngineSells /\ ret.value
    /\ ret.arg.days_to_expiration = MaxDTE
    /\ current_date_index = Len(trading_dates) - 1
    /\ options_positions[Len(options_positions)].expiration =
           trading_dates[Len(trading_dates)]
    /\ options_positions[Len(options_positions)].entry_date <
           trading_dates[Len(trading_dates)]

\* C19: when the Portfolio rejects the trade of sell_put_option (notional
\* above the cash) or of sell_call_option (no holding covering the call), the
\* command returns False instead of raising, and the clock, cash, holdings,
\* open and closed positions and the log are unchanged.
RejectedTradeReturnsFalse ==
    [][ret'.op \in EngineSells =>
         LET a == ret'.arg
             rejected ==
                 IF ret'.op = "sell_put_option"
                 THEN a.strike * a.contracts * 100 > cash
                 ELSE ~ /\ a.symbol \in DOMAIN stock_positions
                        /\ stock_positions[a.symbol].shares >= a.contracts * 100
         IN  rejected =>
                /\ ret'.raised = "none" /\ ~ret'.value
                /\ UNCHANGED <<pfvars, simvars>>]_vars

\* a put refused for lack of cash after earlier trades
RejectedTradeReturnsFalse_Witness ==
    /\ ret.op = "sell_put_option" /\ ret.raised = "none" /\ ~ret.value
    /\ ret.arg.strike * ret.arg.contracts * 100 > cash
    /\ Len(closed_positions) >= 1

\* C20: sell_put_option and sell_call_option called with a spot price that is
\* unavailable or <= 0, or with a strike <= 0, return False, credit no
\* premium and open no position.
InvalidPricingInputRefused ==
    [][(/\ ret'.op \in EngineSells
        /\ \/ ret'.arg.strike <= 0
           \/ get_price_at_date(data_cache, ret'.arg.symbol, current_date) <= 0) =>
         /\ ret'.raised = "none" /\ ~ret'.value
         /\ UNCHANGED pfvars]_vars

\* C21: every contract in the open or the closed list, whatever strike,
\* days_to_expiration and contract count the sell commands were given, has
\* strike > 0, contracts >= 1 and expiration >= entry date.
ContractWellFormed ==
    \A p \in {options_positions[i] : i \in 1..Len(options_positions)}
           \cup {closed_positions[i] : i \in 1..Len(closed_positions)} :
        /\ p.strike > 0
        /\ p.contracts >= 1
        /\ p.expiration >= p.entry_date

PricingOps == {"call_price", "put_price"}

\* the intrinsic value, case by case
Intrinsic(op, S, K) ==
    IF op = "call_price" THEN (IF S > K THEN S - K ELSE 0)
                         ELSE (IF K > S THEN K - S ELSE 0)

\* C22: for T <= 0 the pricing model returns exactly the intrinsic value,
\* whatever the rate and the volatility would make the model value, and no
\* price it returns is negative.
IntrinsicAtExpiry ==
    ret.op \in PricingOps =>
        /\ ret.value >= 0
        /\ ret.arg.T <= 0 => ret.value = Intrinsic(ret.op, ret.arg.S, ret.arg.K)

\* a put priced at T = 0, in the money, where the model value is another one
IntrinsicAtExpiry_Witness ==
    /\ ret.op = "put_price" /\ ret.arg.T = 0
    /\ ret.arg.K > ret.arg.S
    /\ ret.value = ret.arg.K - ret.arg.S
    /\ ret.value # Max(ret.arg.bs, 0)

\* the distance of a strike from a candidate, doubled
TwiceOff(strike, candidate) ==
    IF strike >= candidate THEN 2 * (strike - candidate) ELSE 2 * (candidate - strike)

\* strike is a multiple of 0.50 nearest to a candidate below 50, or a whole
\* number nearest to a candidate of 50 or more
RoundedFrom(strike, candidate) ==
    IF candidate < RoundingThreshold
    THEN strike % (Mill \div 2) = 0 /\ TwiceOff(strike, candidate) <= Mill \div 2
    ELSE strike % Mill = 0 /\ TwiceOff(strike, candidate) <= Mill

\* C24: generate_strike_prices returns a strictly ascending list without
\* duplicates of between 1 and 2n + 1 strikes, which are exactly the
\* roundings of the 2n + 1 candidates: to a multiple of 0.50 for a candidate
\* below 50, to a whole number for a candidate of 50 or more.
StrikeLadderShape ==
    ret.op = "generate_strike_prices" =>
        LET strikes == ret.value
            n == ret.arg.num_strikes
            candidate(i) == ret.arg.stock_price * (Mill + i * ret.arg.spacing_pct)
        IN  /\ Len(strikes) >= 1 /\ Len(strikes) <= 2 * n + 1
            /\ \A k \in 1..(Len(strikes) - 1) : strikes[k] < strikes[k + 1]
            /\ \A k \in 1..Len(strikes) :
                  \E i \in (0 - n)..n : RoundedFrom(strikes[k], candidate(i))
            /\ \A i \in (0 - n)..n :
                  \E k \in 1..Len(strikes) : RoundedFrom(strikes[k], candidate(i))

\* several candidates were rounded to one strike, and more than one strike
\* is left
StrikeLadderShape_Witness ==
    /\ ret.op = "generate_strike_prices"
    /\ Len(ret.value) > 1
    /\ Len(ret.value) < 2 * ret.arg.num_strikes + 1

\* C25: generate_strike_prices(100, 3, 0.025) returns exactly the ladder
\* 92, 95, 97, 100, 102, 105, 107.
StrikeLadderAt100 ==
    (/\ ret.op = "generate_strike_prices"
     /\ ret.arg = [stock_price |-> 100, num_strikes |-> 3,
                   spacing_pct |-> DefaultSpacing]) =>
        ret.value = <<92 * Mill, 95 * Mill, 97 * Mill, 100 * Mill,
                      102 * Mill, 105 * Mill, 107 * Mill>>

\* C26: closed_positions is append-only and chronological: a step keeps the
\* contracts already in it, in their places, and the exit dates along the
\* sequence never decrease.
ClosedChronological ==
    /\ [](\A i \in 1..Len(closed_positions) : \A j \in i..Len(closed_positions) :
             closed_positions[i].exit_date <= closed_positions[j].exit_date)
    /\ [][/\ Len(closed_positions') >= Len(closed_positions)
          /\ SubSeq(closed_positions', 1, Len(closed_positions)) = closed_positions
          /\ Len(closed_positions') - Len(closed_positions) =
                Len(options_positions) - Len(options_positions')
                + (IF ret'.op \in EngineSells /\ ret'.value THEN 1 ELSE 0)]_vars

\* a closed contract as it was while open
AsOpen(closed) ==
    [closed EXCEPT !.status = "open", !.exit_date = None, !.stock_price_at_exit = 0]

\* C27: advance_day(n), n > 1, evaluates expirations at the date it lands on
\* only: a position whose expiration lies strictly between the old and the
\* new current date is resolved in that call, with the spot of the landing
\* date and the landing date as exit date, like every position the call
\* resolves.
JumpResolvesAtLanding ==
    [][(ret'.op = "advance_day" /\ ret'.value /\ ret'.arg.days > 1) =>
         /\ \A j \in 1..Len(options_positions) :
               (/\ current_date < options_positions[j].expiration
                /\ options_positions[j].expiration < current_date') =>
                  \E i \in NewlyClosed :
                     AsOpen(closed_positions'[i]) = options_positions[j]
         /\ \A i \in NewlyClosed :
               LET c == closed_positions'[i]
                   spot == get_price_at_date(data_cache, c.symbol, current_date')
               IN  /\ c.exit_date = current_date'
                   /\ c.status =
                         IF c.option_type = "put"
                         THEN (IF spot < c.strike THEN "assigned"
                                                  ELSE "expired_worthless")
                         ELSE (IF spot > c.strike THEN "called_away"
                                                  ELSE "expired_worthless")
                   /\ c.status # "expired_worthless" => c.stock_price_at_exit = spot
         /\ \A e \in 1..Len(ret'.events) :
               ret'.events[e].stock_price =
                  get_price_at_date(data_cache, ret'.events[e].symbol, current_date')]_vars

\* a put that was in the money on its expiration date, which the step
\* skipped, has expired worthless at the landing date
JumpResolvesAtLanding_Witness ==
    /\ ret.op = "advance_day" /\ ret.value /\ ret.arg.days > 1
    /\ \E i \in 1..Len(closed_positions) :
          LET c == closed_positions[i]
          IN  /\ c.option_type = "put" /\ c.status = "expired_worthless"
              /\ c.exit_date = current_date
              /\ c.entry_date < c.expiration /\ c.expiration < current_date
              /\ get_price_at_date(data_cache, c.symbol, c.expiration) < c.strike

\* the open positions due at a date
Due(positions, date) == {j \in 1..Len(positions) : positions[j].expiration <= date}

\* C28: after an advance_day that reports "advanced" no open position is
\* expired as of the current date: every position with expiration <= current
\* date was resolved once in the call, and one event was returned for each.
AdvancedLeavesNoneExpired ==
    [][(ret'.op = "advance_day" /\ ret'.value) =>
         LET due == Due(options_positions, current_date')
         IN  /\ Due(options_positions', current_date') = {}
             /\ Len(options_positions') = Len(options_positions) - Cardinality(due)
             /\ Len(closed_positions') = Len(closed_positions) + Cardinality(due)
             /\ Len(ret'.events) = Cardinality(due)
             /\ \A j \in due : \E i \in NewlyClosed :
                   AsOpen(closed_positions'[i]) = options_positions[j]]_vars

\* one call resolved two positions that were next to each other in the open
\* list and left a third one open
AdvancedLeavesNoneExpired_Witness ==
    /\ ret.op = "advance_day" /\ ret.value
    /\ Len(ret.events) = 2
    /\ Len(options_positions) = 1
    /\ options_positions[1].entry_date < current_date

\* the kind of event returned for a contract closed with a given status
EventType(closed) ==
    IF closed.status = "assigned" THEN "put_assigned"
    ELSE IF closed.status = "called_away" THEN "call_assigned"
    ELSE "expired_worthless"

\* C29: within one advance_day the expired positions are resolved in the
\* order they had in the open list: the contracts appended to the closed list
\* and the events returned are in that order, and the positions not yet
\* expired stay in the open list in their order.
ResolutionKeepsOrder ==
    [][(ret'.op = "advance_day" /\ ret'.value) =>
         LET expired == SelectSeq(options_positions,
                                  LAMBDA p : p.expiration <= current_date')
             running == SelectSeq(options_positions,
                                  LAMBDA p : p.expiration > current_date')
         IN  /\ options_positions' = running
             /\ Len(closed_positions') = Len(closed_positions) + Len(expired)
             /\ Len(ret'.events) = Len(expired)
             /\ \A k \in 1..Len(expired) :
                   LET c == closed_positions'[Len(closed_positions) + k]
                       e == ret'.events[k]
                   IN  /\ AsOpen(c) = expired[k]
                       /\ e.type = EventType(c)
                       /\ e.symbol = c.symbol /\ e.strike = c.strike]_vars

\* one call returned two events for contracts of different strikes, closed
\* in that order, and left a position open
ResolutionKeepsOrder_Witness ==
    /\ ret.op = "advance_day" /\ ret.value
    /\ Len(ret.events) = 2
    /\ ret.events[1].strike # ret.events[2].strike
    /\ closed_positions[Len(closed_positions)].strike = ret.events[2].strike
    /\ Len(options_positions) >= 1

\* C30: no position is resolved early: a contract enters the closed list only
\* in an advance_day whose resulting current date is >= its expiration, and
\* the open positions whose expiration is later than the current date stay
\* in the open list, in their order, with status open.
NeverResolvedEarly ==
    [][/\ \A i \in NewlyClosed :
             /\ ret'.op = "advance_day"
             /\ closed_positions'[i].expiration <= current_date'
       /\ LET running == SelectSeq(options_positions,
                                   LAMBDA p : p.expiration > current_date')
               running_after == SelectSeq(options_positions',
                                          LAMBDA p : p.expiration > current_date')
           IN  /\ Len(running_after) >= Len(running)
               /\ SubSeq(running_after, 1, Len(running)) = running
               /\ \A k \in 1..Len(running) : running[k].status = "open"]_vars

\* a position sold on an earlier date is still open after an advance_day
\* that resolved another one, its expiration being ahead of the current date
NeverResolvedEarly_Witness ==
    /\ ret.op = "advance_day" /\ ret.value /\ Len(ret.events) >= 1
    /\ \E j \in 1..Len(options_positions) :
          /\ options_positions[j].entry_date < current_date
          /\ current_date < options_positions[j].expiration

\* C31: after a successful initialize the current date is the trading date
\* at the clock index, in every state, also after an advance_day that was
\* held at the last trading date.
CurrentDateMatchesIndex ==
    Initialized =>
        /\ InRange(trading_dates, current_date_index)
        /\ current_date = PyIndex(trading_dates, current_date_index)

\* C32: when the caller keeps calling advance_day(n), n >= 1, every contract
\* accepted into the open list is eventually moved to the closed list: from
\* any state with an open position a state with none is reached.
EveryPositionResolved ==
    (options_positions # <<>>) ~> (options_positions = <<>>)

PremiumDescriptions == {"Premium from selling put(s)", "Premium from selling call(s)"}

RECURSIVE SalesLogged(_, _)
\* the accepted sell_put and sell_call calls among the first k log entries
SalesLogged(log, k) ==
    IF k = 0 THEN 0
    ELSE SalesLogged(log, k - 1) +
         (IF log[k].description \in PremiumDescriptions THEN 1 ELSE 0)

\* C33: the open and the closed list partition the accepted contracts: every
\* open contract has status open, every closed one a terminal status and an
\* exit date, none is in both lists, and open plus closed count as many
\* contracts as sell_put and sell_call calls were accepted.
PositionsPartition ==
    /\ \A i \in 1..Len(options_positions) :
          /\ options_positions[i].status = "open"
          /\ options_positions[i].exit_date = None
    /\ \A j \in 1..Len(closed_positions) :
          /\ closed_positions[j].status \in TerminalStatuses
          /\ closed_positions[j].exit_date # None
          /\ \A i \in 1..Len(options_positions) :
                options_positions[i] # closed_positions[j]
    /\ Len(options_positions) + Len(closed_positions) =
          SalesLogged(transaction_history, Len(transaction_history))

\* contracts in both lists, a call among the closed ones
PositionsPartition_Witness ==
    /\ Len(options_positions) >= 1
    /\ Len(closed_positions) >= 2
    /\ \E j \in 1..Len(closed_positions) : closed_positions[j].status = "called_away"

RECURSIVE LogBalance(_, _)
\* cash_in amounts minus cash_out amounts over the first k log entries
LogBalance(log, k) ==
    IF k = 0 THEN 0
    ELSE LogBalance(log, k - 1) +
         (IF log[k].type = "cash_in" THEN log[k].amount ELSE 0 - log[k].amount)

\* C34: the transaction log accounts for the cash: cash is the initial
\* capital plus the cash_in amounts minus the cash_out amounts of the log;
\* the log grows by appending only, and a rejected call appends nothing.
CashAudit ==
    /\ [](cash = INITIAL_CAPITAL
                  + LogBalance(transaction_history, Len(transaction_history)))
    /\ [][/\ Len(transaction_history') >= Len(transaction_history)
          /\ SubSeq(transaction_history', 1, Len(transaction_history))
                = transaction_history
          /\ ret'.raised # "none" =>
                transaction_history' = transaction_history]_vars

\* a call was rejected when the log held money in and money out
CashAudit_Witness ==
    /\ ret.raised # "none"
    /\ \E k \in 1..Len(transaction_history) :
          transaction_history[k].type = "cash_in" /\ transaction_history[k].amount > 0
    /\ \E k \in 1..Len(transaction_history) :
          transaction_history[k].type = "cash_out" /\ transaction_history[k].amount > 0

RECURSIVE CallShares(_, _, _)
\* the shares the open calls on a symbol deliver, over the first k positions
CallShares(positions, k, symbol) ==
    IF k = 0 THEN 0
    ELSE CallShares(positions, k - 1, symbol) +
         (IF positions[k].option_type = "call" /\ positions[k].symbol = symbol
          THEN positions[k].contracts * 100 ELSE 0)

\* the shares held of a symbol
SharesHeld(symbol) ==
    IF symbol \in DOMAIN stock_positions THEN stock_positions[symbol].shares ELSE 0

\* C35: open calls stay covered: for each symbol the shares held are at
\* least the contracts * 100 summed over the open calls on that symbol.
CallsCovered ==
    \A symbol \in Symbols :
        SharesHeld(symbol) >=
            CallShares(options_positions, Len(options_positions), symbol)

\* C36: the outcome of one advance_day does not depend on the order of the
\* open list: with the open positions in any other order the call ends with
\* the same cash, the same holdings and the same success or failure.
OrderIndependent ==
    [][(/\ ret'.op = "advance_day"
        /\ ~past_the_end(current_date_index + ret'.arg.days, trading_dates)) =>
         \A perm \in Permutations(1..Len(options_positions)) :
            LET reordered == [k \in 1..Len(options_positions) |->
                                options_positions[perm[k]]]
                r == process_expirations(
                         [ThePortfolio EXCEPT !.options_positions = reordered],
                         data_cache, current_date')
            IN  /\ r.pf.cash = cash'
                /\ r.pf.stock_positions = stock_positions'
                /\ r.raised = ret'.raised]_vars

====
